---- MODULE Spec2Model ----
(***************************************************************************)
(* A model of convert.py, the numeric-literal conversion commands of       *)
(* sublime-hexbindec.  A text is a sequence of one-character strings.  A   *)
(* command walks the selections of the view; the model starts from the     *)
(* text of each selected region (the widening of an empty selection to a   *)
(* word is done by the editor's view.word and is not part of the model).   *)
(* Python's float and Decimal values are modelled as exact decimals        *)
(* m * 10^e; the literals the model draws are ones on which the double     *)
(* arithmetic of the commands is exact.                                    *)
(***************************************************************************)
EXTENDS Integers, Sequences, FiniteSets, TLC

VARIABLES cmd, settings, items, out, nrep, idx, num_skip, pc, base, exp, status

vars == <<cmd, settings, items, out, nrep, idx, num_skip, pc, base, exp, status>>

(***************************************************************************)
(* Bounds of the model.                                                    *)
(***************************************************************************)
\* the longest batch of selections of one command
MaxBatch == 3
\* the longest digit string of the two's complement runs
MaxBits == 5
\* the longest integer and fractional parts of the fixed point runs
MaxIntBits == 3
MaxFracBits == 3
\* the largest integer of the round trips
MaxN == 40
\* the decimal exponent from which a double overflows to infinity
FloatMaxExp == 6
\* the magnitude at which the model stops counting the exponent
ExpCap == 8

(***************************************************************************)
(* Characters and digits.                                                  *)
(***************************************************************************)
BinChars == {"0", "1"}
DecChars == {"0", "1", "2", "3", "4", "5", "6", "7", "8", "9"}
LowerHex == {"a", "b", "c", "d", "e", "f"}
UpperHex == {"A", "B", "C", "D", "E", "F"}
HexChars == DecChars \cup LowerHex \cup UpperHex
UpperChars == UpperHex \cup {"G", "H", "I", "J", "K", "L", "M", "N", "O", "P", "Q",
                             "R", "S", "T", "U", "V", "W", "X", "Y", "Z"}
LowerChars == LowerHex \cup {"g", "h", "i", "j", "k", "l", "m", "n", "o", "p", "q",
                             "r", "s", "t", "u", "v", "w", "x", "y", "z"}
\* the characters \w matches (and between which \b finds no boundary)
WordChars == DecChars \cup LowerChars \cup UpperChars \cup {"_"}

DigitChars == <<"0", "1", "2", "3", "4", "5", "6", "7", "8", "9",
                "a", "b", "c", "d", "e", "f">>
UpperDigitChars == <<"0", "1", "2", "3", "4", "5", "6", "7", "8", "9",
                     "A", "B", "C", "D", "E", "F">>
AllDigitChars == DecChars \cup LowerChars \cup UpperChars

\* the value of a digit character, as int(s, base) reads it: 0-9, then a-z or A-Z
DigitVal(c) ==
    IF c \in DecChars THEN CHOOSE v \in 0..9 : DigitChars[v + 1] = c
    ELSE IF c \in LowerHex THEN CHOOSE v \in 10..15 : DigitChars[v + 1] = c
    ELSE IF c \in UpperHex THEN CHOOSE v \in 10..15 : UpperDigitChars[v + 1] = c
    ELSE 16

RECURSIVE Pow(_, _)
Pow(b, n) == IF n <= 0 THEN 1 ELSE b * Pow(b, n - 1)


\* F of the value of e, with e evaluated once
Bind(e, F(_)) == CHOOSE v \in {F(x) : x \in {e}} : TRUE

\* the failure of a step that raises: what the except clause of a command catches
Raise == [ok |-> FALSE, val |-> 0, text |-> <<>>]

(***************************************************************************)
(* int(s, base) on a string of digits, and str / format of an integer.     *)
(***************************************************************************)
RECURSIVE DigitsValueTo(_, _, _)
\* the value in base b of the first n digits of s
DigitsValueTo(s, n, b) ==
    IF n = 0 THEN 0 ELSE DigitsValueTo(s, n - 1, b) * b + DigitVal(s[n])

DigitsValue(s, b) == DigitsValueTo(s, Len(s), b)

\* int(s, base): ValueError on an empty string or a digit outside the base
IntParse(s, b) ==
    IF s # <<>> /\ \A i \in 1..Len(s) : s[i] \in AllDigitChars /\ DigitVal(s[i]) < b
    THEN [ok |-> TRUE, val |-> DigitsValue(s, b), text |-> <<>>]
    ELSE Raise

RECURSIVE NatDigits(_, _, _)
NatDigits(n, b, chars) ==
    IF n < b THEN <<chars[n + 1]>>
    ELSE Append(NatDigits(n \div b, b, chars), chars[(n % b) + 1])

Sign(n) == IF n < 0 THEN <<"-">> ELSE <<>>
Abs(n) == IF n < 0 THEN -n ELSE n

\* str(n) of an int
StrInt(n) == Sign(n) \o NatDigits(Abs(n), 10, DigitChars)

(***************************************************************************)
(* The settings of the view and the default patterns and formats.          *)
(***************************************************************************)
_CONVERT_DST_BIN_DFLT == "{0:b}"
_CONVERT_DST_HEX_DFLT == "{0:#x}"
_CONVERT_DST_EXP_DFLT == "e"
_CONVERT_SRC_BIN_DFLT == "\\b(?:0b)?([01]+)\\b"
_CONVERT_SRC_FXD_DFLT == "\\b(?:0b)?(?P<int>[01]+)([.])(?P<frac>[01]+)\\b"
_CONVERT_SRC_HEX_DFLT == "\\b(?:0x)?([0-9a-fA-F]+)h?\\b"
_CONVERT_SRC_EXP_DFLT == "\\b(\\d+\\.\\d+)[e,E]([-+]?\\d+)\\b"

\* the overrides of the example configuration of the header comment
ExampleSrcBin == "'B([01]+)'"
ExampleSrcHex == "'H([0-9A-Z]+)'"
ExampleDstBin == "'B{0:b}'"
ExampleDstHex == "'H{0:X}'"
ExampleDstExp == "EX"
\* an override re.compile rejects, and one str.format rejects
BadPattern == "(["
BadFormat == "{0:q}"

SrcSlots == {"convert_src_bin", "convert_src_fxd", "convert_src_hex", "convert_src_exp"}
DstSlots == {"convert_dst_bin", "convert_dst_hex", "convert_dst_exp"}
Slots == SrcSlots \cup DstSlots

\* a value of the settings object: a missing key, a string or another JSON value
Absent == [type |-> "absent", val |-> ""]
Str(s) == [type |-> "str", val |-> s]
NonString == [type |-> "int", val |-> "5"]

\* view.settings().get(name, default)
SettingsGet(st, name, default) ==
    IF st[name].type = "absent" THEN Str(default) ELSE st[name]

\* the pattern strings re.compile accepts, among those the model draws
CompilablePatterns == {_CONVERT_SRC_BIN_DFLT, _CONVERT_SRC_FXD_DFLT,
                       _CONVERT_SRC_HEX_DFLT, _CONVERT_SRC_EXP_DFLT,
                       ExampleSrcBin, ExampleSrcHex}

\* re.compile(p): raises on a value that is no string or no regular expression
ReCompiles(p) == p.type = "str" /\ p.val \in CompilablePatterns

\* load_pattern without its except clause: the override goes to the matcher as it is
load_pattern_NoFallback(st, name, default) == SettingsGet(st, name, default).val

\* load_pattern(view, name, default): the compiled override, or the compiled default
load_pattern(st, name, default) ==
    IF ReCompiles(SettingsGet(st, name, default))
    THEN SettingsGet(st, name, default).val
    ELSE default

(***************************************************************************)
(* r.match(text): a match anchored at the start of the text.  Each matcher *)
(* returns the groups of the match the regular expression engine finds     *)
(* first (the longest repetitions that let the rest of the pattern match). *)
(***************************************************************************)
NoMatch == [ok |-> FALSE, g1 |-> <<>>, g2 |-> <<>>]
Matched(a, b) == [ok |-> TRUE, g1 |-> a, g2 |-> b]

IsWord(t, i) == i >= 1 /\ i <= Len(t) /\ t[i] \in WordChars

\* \b after the first p characters of t
Boundary(t, p) == IsWord(t, p) # IsWord(t, p + 1)

\* t has the characters of lit after its first p characters
HasAt(t, p, lit) ==
    /\ p + Len(lit) <= Len(t)
    /\ \A i \in 1..Len(lit) : t[p + i] = lit[i]

RECURSIVE RunLen(_, _, _)
\* the length of the longest run of characters of S after the first p of t
RunLen(t, p, S) == IF p < Len(t) /\ t[p + 1] \in S THEN 1 + RunLen(t, p + 1, S) ELSE 0

RECURSIVE LongestToBoundary(_, _, _)
\* the largest k' in 1..k with \b after the first p + k' characters, or 0
LongestToBoundary(t, p, k) ==
    IF k = 0 THEN 0
    ELSE IF Boundary(t, p + k) THEN k
    ELSE LongestToBoundary(t, p, k - 1)

\* [S]+ then \b after the first p characters: the group, the longest first
DigitsThenBoundary(t, p, S) ==
    IF LongestToBoundary(t, p, RunLen(t, p, S)) = 0 THEN NoMatch
    ELSE Matched(SubSeq(t, p + 1, p + LongestToBoundary(t, p, RunLen(t, p, S))), <<>>)

\* \b(?:0b)?([01]+)\b
MatchBin(t) ==
    IF ~Boundary(t, 0) THEN NoMatch
    ELSE IF HasAt(t, 0, <<"0", "b">>) /\ DigitsThenBoundary(t, 2, BinChars).ok
    THEN DigitsThenBoundary(t, 2, BinChars)
    ELSE DigitsThenBoundary(t, 0, BinChars)

RECURSIVE HexDigitsThenBoundary(_, _, _)
\* ([0-9a-fA-F]+)h?\b after the first p characters, the group of at most k
\* digits, the longest first
HexDigitsThenBoundary(t, p, k) ==
    IF k = 0 THEN NoMatch
    ELSE IF \/ HasAt(t, p + k, <<"h">>) /\ Boundary(t, p + k + 1)
            \/ Boundary(t, p + k)
    THEN Matched(SubSeq(t, p + 1, p + k), <<>>)
    ELSE HexDigitsThenBoundary(t, p, k - 1)

\* \b(?:0x)?([0-9a-fA-F]+)h?\b
MatchHex(t) ==
    IF ~Boundary(t, 0) THEN NoMatch
    ELSE IF /\ HasAt(t, 0, <<"0", "x">>)
            /\ HexDigitsThenBoundary(t, 2, RunLen(t, 2, HexChars)).ok
    THEN HexDigitsThenBoundary(t, 2, RunLen(t, 2, HexChars))
    ELSE HexDigitsThenBoundary(t, 0, RunLen(t, 0, HexChars))

RECURSIVE FixedThenBoundary(_, _, _)
\* (?P<int>[01]+)([.])(?P<frac>[01]+)\b after the first p characters, int of at
\* most k digits, the longest first
FixedThenBoundary(t, p, k) ==
    IF k = 0 THEN NoMatch
    ELSE IF HasAt(t, p + k, <<".">>) /\ DigitsThenBoundary(t, p + k + 1, BinChars).ok
    THEN Matched(SubSeq(t, p + 1, p + k), DigitsThenBoundary(t, p + k + 1, BinChars).g1)
    ELSE FixedThenBoundary(t, p, k - 1)

\* \b(?:0b)?(?P<int>[01]+)([.])(?P<frac>[01]+)\b : g1 is int, g2 is frac
MatchFxd(t) ==
    IF ~Boundary(t, 0) THEN NoMatch
    ELSE IF /\ HasAt(t, 0, <<"0", "b">>)
            /\ FixedThenBoundary(t, 2, RunLen(t, 2, BinChars)).ok
    THEN FixedThenBoundary(t, 2, RunLen(t, 2, BinChars))
    ELSE FixedThenBoundary(t, 0, RunLen(t, 0, BinChars))

\* the characters of the class [e,E]
ExpSeparators == {"e", ",", "E"}

\* ([-+]?\d+)\b after the first p characters
ExponentThenBoundary(t, p) ==
    IF /\ p < Len(t)
       /\ t[p + 1] \in {"-", "+"}
       /\ DigitsThenBoundary(t, p + 1, DecChars).ok
    THEN Matched(<<t[p + 1]>> \o DigitsThenBoundary(t, p + 1, DecChars).g1, <<>>)
    ELSE DigitsThenBoundary(t, p, DecChars)

RECURSIVE FractionThenExponent(_, _, _)
\* \d+)[e,E]([-+]?\d+)\b after the point that follows the first i characters,
\* the fraction of at most f digits, the longest first
FractionThenExponent(t, i, f) ==
    IF f = 0 THEN NoMatch
    ELSE IF /\ i + 1 + f < Len(t)
            /\ t[i + 1 + f + 1] \in ExpSeparators
            /\ ExponentThenBoundary(t, i + 1 + f + 1).ok
    THEN Matched(SubSeq(t, 1, i + 1 + f), ExponentThenBoundary(t, i + 1 + f + 1).g1)
    ELSE FractionThenExponent(t, i, f - 1)

RECURSIVE MantissaThenExponent(_, _)
\* (\d+\.\d+)[e,E]([-+]?\d+)\b, the integer part of at most i digits, the
\* longest first
MantissaThenExponent(t, i) ==
    IF i = 0 THEN NoMatch
    ELSE IF /\ HasAt(t, i, <<".">>)
            /\ FractionThenExponent(t, i, RunLen(t, i + 1, DecChars)).ok
    THEN FractionThenExponent(t, i, RunLen(t, i + 1, DecChars))
    ELSE MantissaThenExponent(t, i - 1)

\* \b(\d+\.\d+)[e,E]([-+]?\d+)\b : g1 is the mantissa, g2 the exponent
MatchExp(t) ==
    IF ~Boundary(t, 0) THEN NoMatch
    ELSE MantissaThenExponent(t, RunLen(t, 0, DecChars))

RECURSIVE QuotedDigits(_, _, _)
\* the digits and the closing quote after the first two characters, at most k
\* digits, the longest first
QuotedDigits(t, k, S) ==
    IF k = 0 THEN NoMatch
    ELSE IF HasAt(t, 2 + k, <<"'">>) THEN Matched(SubSeq(t, 3, 2 + k), <<>>)
    ELSE QuotedDigits(t, k - 1, S)

\* 'B([01]+)' and 'H([0-9A-Z]+)' : a quote, a letter, digits, a quote
MatchQuoted(t, letter, S) ==
    IF HasAt(t, 0, <<"'", letter>>) THEN QuotedDigits(t, RunLen(t, 2, S), S)
    ELSE NoMatch

\* r.match(text) of the compiled pattern r; a pattern that did not compile has no
\* matcher, and the call raises like a failed match does at match.group
Match(pattern, t) ==
    CASE pattern = _CONVERT_SRC_BIN_DFLT -> MatchBin(t)
      [] pattern = _CONVERT_SRC_HEX_DFLT -> MatchHex(t)
      [] pattern = _CONVERT_SRC_FXD_DFLT -> MatchFxd(t)
      [] pattern = _CONVERT_SRC_EXP_DFLT -> MatchExp(t)
      [] pattern = ExampleSrcBin -> MatchQuoted(t, "B", BinChars)
      [] pattern = ExampleSrcHex -> MatchQuoted(t, "H", DecChars \cup UpperChars)
      [] OTHER -> NoMatch

(***************************************************************************)
(* str.format of the destination formats, and the stripping of strings.    *)
(***************************************************************************)
Ok(t) == [ok |-> TRUE, val |-> 0, text |-> t]
Val(n) == [ok |-> TRUE, val |-> n, text |-> <<>>]

\* '{0:#x}' with the prefix of '{0:#X}'
FormatHexPrefixed_Upper(n) == Sign(n) \o <<"0", "X">> \o NatDigits(Abs(n), 16, DigitChars)

\* '{0:#x}'.format(n)
FormatHexPrefixed(n) == Sign(n) \o <<"0", "x">> \o NatDigits(Abs(n), 16, DigitChars)

\* '{0:b}'.format(n)
FormatBin(n) == Sign(n) \o NatDigits(Abs(n), 2, DigitChars)

\* dst_format.format(n): AttributeError on a value that is no string, ValueError
\* on a format specification str.format rejects
Format(fmt, n) ==
    IF fmt.type # "str" THEN Raise
    ELSE CASE fmt.val = _CONVERT_DST_BIN_DFLT -> Ok(FormatBin(n))
           [] fmt.val = _CONVERT_DST_HEX_DFLT -> Ok(FormatHexPrefixed(n))
           [] fmt.val = ExampleDstBin ->
                Ok(<<"'", "B">> \o FormatBin(n) \o <<"'">>)
           [] fmt.val = ExampleDstHex ->
                Ok(<<"'", "H">> \o Sign(n) \o NatDigits(Abs(n), 16, UpperDigitChars)
                   \o <<"'">>)
           [] OTHER -> Raise

RECURSIVE RStrip(_, _)
\* t.rstrip(c)
RStrip(t, c) ==
    IF t # <<>> /\ t[Len(t)] = c THEN RStrip(SubSeq(t, 1, Len(t) - 1), c) ELSE t

RECURSIVE LStrip(_, _)
LStrip(t, c) == IF t # <<>> /\ t[1] = c THEN LStrip(Tail(t), c) ELSE t

\* t.strip(), on the whitespace the model draws
Strip(t) == LStrip(RStrip(t, " "), " ")

\* int(t) of a decimal numeral: an optional sign, then digits
IntOfDecimal(t) ==
    LET s == Strip(t)
        d == IF s # <<>> /\ s[1] \in {"-", "+"} THEN Tail(s) ELSE s
        v == IntParse(d, 10)
    IN  IF ~v.ok THEN Raise
        ELSE IF s[1] = "-" THEN Val(-v.val) ELSE v

(***************************************************************************)
(* Decimal numbers (-1)^neg * m * 10^e, for float and for Decimal.         *)
(***************************************************************************)
Num(neg, m, e) == [neg |-> neg, m |-> m, e |-> e, inf |-> FALSE]
NoNum == Num(FALSE, 0, 0)
Infinity(neg) == [neg |-> neg, m |-> 0, e |-> 0, inf |-> TRUE]

RECURSIVE NumDigits(_)
NumDigits(m) == IF m < 10 THEN 1 ELSE 1 + NumDigits(m \div 10)

RECURSIVE Canon(_)
\* the same number with no trailing zero in m
Canon(v) ==
    IF v.inf THEN v
    ELSE IF v.m = 0 THEN Num(v.neg, 0, 0)
    ELSE IF v.m % 10 = 0
    THEN Bind(Num(v.neg, v.m \div 10, v.e + 1), LAMBDA w : Canon(w))
    ELSE v

\* the position of the decimal point: v = 0.d1d2... * 10^Decpt(v), for v # 0
Decpt(v) == NumDigits(v.m) + v.e

\* a double: a magnitude of 10^FloatMaxExp or more is infinity
ToFloat(v) ==
    Bind(Canon(v), LAMBDA c :
        IF ~c.inf /\ c.m # 0 /\ Decpt(c) > FloatMaxExp THEN Infinity(c.neg) ELSE c)

\* float(t): an optional sign, digits with an optional point, an optional
\* exponent (inf, nan and underscores are not among the characters drawn)
FloatParse(t) ==
    LET s == Strip(t)
        p == IF s # <<>> /\ s[1] \in {"-", "+"} THEN 1 ELSE 0
        i == RunLen(s, p, DecChars)
        dot == HasAt(s, p + i, <<".">>)
        f == IF dot THEN RunLen(s, p + i + 1, DecChars) ELSE 0
        q == p + i + (IF dot THEN 1 ELSE 0) + f
        digits == SubSeq(s, p + 1, p + i) \o SubSeq(s, p + i + 2, p + i + 1 + f)
        hasE == q < Len(s) /\ s[q + 1] \in {"e", "E"}
        xs == q + 1 + (IF q + 1 < Len(s) /\ s[q + 2] \in {"-", "+"} THEN 1 ELSE 0)
        xd == IntParse(SubSeq(s, xs + 1, Len(s)), 10)
        x == IF ~hasE THEN 0 ELSE IF s[q + 2] = "-" THEN -xd.val ELSE xd.val
    IN  IF i + f >= 1 /\ (IF hasE THEN xd.ok ELSE q = Len(s))
        THEN [ok |-> TRUE,
              val |-> ToFloat(Num(p = 1 /\ s[1] = "-", DigitsValue(digits, 10), x - f)),
              text |-> <<>>]
        ELSE [ok |-> FALSE, val |-> NoNum, text |-> <<>>]

\* base > 10 and base < 1 of a double
GT10(v) ==
    /\ ~v.neg
    /\ \/ v.inf
       \/ v.m # 0 /\ (Decpt(Canon(v)) >= 3 \/ (Decpt(Canon(v)) = 2 /\ Canon(v).m # 1))
LT1(v) == IF v.inf THEN v.neg ELSE v.m = 0 \/ v.neg \/ Decpt(Canon(v)) <= 0

\* base / 10 and base * 10 of a double
Div10(v) == IF v.inf \/ v.m = 0 THEN v ELSE ToFloat(Num(v.neg, v.m, v.e - 1))
Mul10(v) == IF v.inf \/ v.m = 0 THEN v ELSE ToFloat(Num(v.neg, v.m, v.e + 1))

Zeros(n) == [i \in 1..n |-> "0"]

\* str(x) of a double: repr's shortest digits, in positional notation when
\* -4 < decpt <= 16 and with an exponent otherwise
StrFloat(x) ==
    LET v == Canon(x)
        d == NatDigits(v.m, 10, DigitChars)
        n == Len(d)
        dp == n + v.e
        ex == dp - 1
        exd == NatDigits(Abs(ex), 10, DigitChars)
    IN  Sign(IF v.neg THEN -1 ELSE 1) \o
        (IF v.inf THEN <<"i", "n", "f">>
         ELSE IF v.m = 0 THEN <<"0", ".", "0">>
         ELSE IF dp > -4 /\ dp <= 16 THEN
              IF dp <= 0 THEN <<"0", ".">> \o Zeros(-dp) \o d
              ELSE IF dp >= n THEN d \o Zeros(dp - n) \o <<".", "0">>
              ELSE SubSeq(d, 1, dp) \o <<".">> \o SubSeq(d, dp + 1, n)
         ELSE <<d[1]>> \o (IF n > 1 THEN <<".">> \o Tail(d) ELSE <<>>)
              \o <<"e", IF ex < 0 THEN "-" ELSE "+">>
              \o (IF Len(exd) < 2 THEN <<"0">> ELSE <<>>) \o exd)

\* the number of digits after the point that ExpToDec rounds to
RoundDigits == 18

\* round(x, nd): to nd digits after the point, a tie to the even digit
Round(x, nd) ==
    LET v == Canon(x)
        k == -v.e - nd
        q == v.m \div Pow(10, k)
        r == v.m % Pow(10, k)
        half == 5 * Pow(10, k - 1)
        up == r > half \/ (r = half /\ q % 2 = 1)
    IN  IF v.inf \/ v.e >= -nd THEN v
        ELSE Canon(Num(v.neg, IF up THEN q + 1 ELSE q, -nd))

\* the integer a double holds, for the exponent group [-+]?\d+
FloatInt(x) == (IF x.neg THEN -1 ELSE 1) * x.m * Pow(10, x.e)

\* m * 10 ** x of two doubles, x finite: OverflowError when the power is out of
\* the range of a double, infinity when only the product is
ExpandFloat(m, x) ==
    IF FloatInt(x) + 1 > FloatMaxExp THEN [ok |-> FALSE, val |-> NoNum, text |-> <<>>]
    ELSE IF m.inf THEN [ok |-> TRUE, val |-> m, text |-> <<>>]
    ELSE [ok |-> TRUE, val |-> ToFloat(Num(m.neg, m.m, m.e + FloatInt(x))),
          text |-> <<>>]

(***************************************************************************)
(* Decimal, twos_complement and the fixed point conversions.               *)
(***************************************************************************)
\* a + b of two Decimal values: the exponent of the sum is the smaller one
SumAt(a, b, e) ==
    (IF a.neg THEN -1 ELSE 1) * a.m * Pow(10, a.e - e)
    + (IF b.neg THEN -1 ELSE 1) * b.m * Pow(10, b.e - e)

DecAdd(a, b) ==
    Bind(a, LAMBDA x : Bind(b, LAMBDA y :
        Bind(SumAt(x, y, IF x.e < y.e THEN x.e ELSE y.e), LAMBDA sum :
            Num(sum < 0, Abs(sum), IF x.e < y.e THEN x.e ELSE y.e))))

\* Decimal(2) ** Decimal(n), n an integer: 2^n, or 5^-n / 10^-n
DecPow2(n) == IF n >= 0 THEN Num(FALSE, Pow(2, n), 0) ELSE Num(FALSE, Pow(5, -n), n)

\* str(d) of a Decimal: positional when the exponent is at most 0 and the first
\* digit is no further than six places after the point
StrDecimal(v) ==
    LET d == NatDigits(v.m, 10, DigitChars)
        n == Len(d)
        dp == n + v.e
        exd == NatDigits(Abs(dp - 1), 10, DigitChars)
    IN  Sign(IF v.neg THEN -1 ELSE 1) \o
        (IF v.e <= 0 /\ dp > -6 THEN
              IF dp <= 0 THEN <<"0", ".">> \o Zeros(-dp) \o d
              ELSE IF dp >= n THEN d
              ELSE SubSeq(d, 1, dp) \o <<".">> \o SubSeq(d, dp + 1, n)
         ELSE <<d[1]>> \o (IF n > 1 THEN <<".">> \o Tail(d) ELSE <<>>)
              \o <<"E", IF dp - 1 < 0 THEN "-" ELSE "+">> \o exd)

RECURSIVE FracSum(_, _)
\* the loop of UFixedToDecimal with the weight 2^-i for the digit of index i
FracSum_OffByOne(frac, n) ==
    IF n = 0 THEN Num(FALSE, 0, 0)
    ELSE IF frac[n] = "1" THEN DecAdd(FracSum(frac, n - 1), DecPow2(-(n - 1)))
    ELSE FracSum(frac, n - 1)

\* the loop of UFixedToDecimal over the first n digits of frac, from Decimal(0.0):
\* the digit of index i = n - 1 adds Decimal(2) ** Decimal(-i - 1)
FracSum(frac, n) ==
    IF n = 0 THEN Num(FALSE, 0, 0)
    ELSE IF frac[n] = "1" THEN DecAdd(FracSum(frac, n - 1), DecPow2(-(n - 1) - 1))
    ELSE FracSum(frac, n - 1)

\* UFixedToDecimal(matches), matches the groups int and frac
UFixedToDecimal(int, frac) ==
    DecAdd(Num(FALSE, IntParse(int, 2).val, 0), FracSum(frac, Len(frac)))

\* FixedToDecimal with the sign bit weighted 2^len(int)
FixedToDecimal_WrongPower(int, frac) ==
    IF int[1] = "0" THEN UFixedToDecimal(int, frac)
    ELSE DecAdd([DecPow2(Len(int)) EXCEPT !.neg = TRUE],
                UFixedToDecimal(<<"0">> \o Tail(int), frac))

\* FixedToDecimal(matches)
FixedToDecimal(int, frac) ==
    IF int[1] = "0" THEN UFixedToDecimal(int, frac)
    ELSE DecAdd([DecPow2(Len(int) - 1) EXCEPT !.neg = TRUE],
                UFixedToDecimal(<<"0">> \o Tail(int), frac))

\* val & (1 << k) != 0
BitSet(val, k) == (val \div Pow(2, k)) % 2 = 1

\* twos_complement testing the bit below the sign bit
twos_complement_WrongBit(value, nbits, b) ==
    LET val == IntParse(value, b).val
    IN  IF ~IntParse(value, b).ok THEN Raise
        ELSE IF val < 0 THEN Val(Pow(2, nbits) + val)
        ELSE IF nbits >= 2 /\ BitSet(val, nbits - 2) THEN Val(val - Pow(2, nbits))
        ELSE Val(val)

\* twos_complement(value, nbits, base)
twos_complement(value, nbits, b) ==
    LET val == IntParse(value, b).val
    IN  IF ~IntParse(value, b).ok THEN Raise
        ELSE IF val < 0 THEN Val(Pow(2, nbits) + val)
        ELSE IF BitSet(val, nbits - 1) THEN Val(val - Pow(2, nbits))
        ELSE Val(val)

(***************************************************************************)
(* The body of the try statement of each command, for one selection text t *)
(* under the settings st: the replacement text, or Raise.                  *)
(***************************************************************************)
\* int(match.group(1), b): AttributeError when there is no match
GroupInt(m, b) == IF m.ok THEN IntParse(m.g1, b) ELSE Raise

\* twos_complement(match.group(1), len(match.group(1)), 2)
GroupTwos(m) == IF m.ok THEN twos_complement(m.g1, Len(m.g1), 2) ELSE Raise

SrcBin(st) == load_pattern(st, "convert_src_bin", _CONVERT_SRC_BIN_DFLT)
SrcHex(st) == load_pattern(st, "convert_src_hex", _CONVERT_SRC_HEX_DFLT)
SrcFxd(st) == load_pattern(st, "convert_src_fxd", _CONVERT_SRC_FXD_DFLT)
SrcExp(st) == load_pattern(st, "convert_src_exp", _CONVERT_SRC_EXP_DFLT)
DstBin(st) == SettingsGet(st, "convert_dst_bin", _CONVERT_DST_BIN_DFLT)
DstHex(st) == SettingsGet(st, "convert_dst_hex", _CONVERT_DST_HEX_DFLT)
DstExp(st) == SettingsGet(st, "convert_dst_exp", _CONVERT_DST_EXP_DFLT)

BinToDecCommand(st, t) ==
    LET v == GroupInt(Match(SrcBin(st), t), 2)
    IN  IF v.ok THEN Ok(StrInt(v.val)) ELSE Raise

BinToHexCommand(st, t) ==
    LET v == GroupInt(Match(SrcBin(st), t), 2)
    IN  IF v.ok THEN Format(DstHex(st), v.val) ELSE Raise

DecToBinCommand(st, t) ==
    LET v == IntOfDecimal(t)
    IN  IF v.ok THEN Format(DstBin(st), v.val) ELSE Raise

DecToHexCommand(st, t) ==
    LET v == IntOfDecimal(t)
    IN  IF v.ok THEN Format(DstHex(st), v.val) ELSE Raise

HexToBinCommand(st, t) ==
    LET v == GroupInt(Match(SrcHex(st), t), 16)
    IN  IF v.ok THEN Format(DstBin(st), v.val) ELSE Raise

HexToDecCommand(st, t) ==
    LET v == GroupInt(Match(SrcHex(st), t), 16)
    IN  IF v.ok THEN Ok(StrInt(v.val)) ELSE Raise

ExpToDecCommand(st, t) ==
    Bind(Match(SrcExp(st), t), LAMBDA m :
        IF ~m.ok THEN Raise
        ELSE Bind(FloatParse(m.g1).val, LAMBDA mantissa :
             Bind(FloatParse(m.g2).val, LAMBDA exponent :
             Bind(ExpandFloat(mantissa, exponent), LAMBDA r :
                 IF ~r.ok THEN Raise
                 ELSE Bind(Round(r.val, RoundDigits), LAMBDA result :
                      Bind(StrFloat(result), LAMBDA str :
                          Ok(RStrip(RStrip(str, "0"), "."))))))))

UfxToDecCommand(st, t) ==
    Bind(Match(SrcFxd(st), t), LAMBDA m :
        IF ~m.ok THEN Raise
        ELSE Bind(UFixedToDecimal(m.g1, m.g2), LAMBDA d : Ok(StrDecimal(d))))

SfxToDecCommand(st, t) ==
    Bind(Match(SrcFxd(st), t), LAMBDA m :
        IF ~m.ok THEN Raise
        ELSE Bind(FixedToDecimal(m.g1, m.g2), LAMBDA d : Ok(StrDecimal(d))))

SbinToDecCommand(st, t) ==
    LET v == GroupTwos(Match(SrcBin(st), t))
    IN  IF v.ok THEN Ok(StrInt(v.val)) ELSE Raise

SbinToHexCommand(st, t) ==
    LET v == GroupTwos(Match(SrcBin(st), t))
    IN  IF v.ok THEN Format(DstHex(st), v.val) ELSE Raise

\* the characters of a separator string of the settings
Chars(sep) ==
    CASE sep = _CONVERT_DST_EXP_DFLT -> <<"e">>
      [] sep = ExampleDstExp -> <<"E", "X">>

\* the last lines of the try statement of DecToExpCommand, after the two loops:
\* TypeError when the separator of the settings is no string
DecToExpRender(st, b, x) ==
    IF DstExp(st).type # "str" THEN Raise
    ELSE Bind(StrFloat(b), LAMBDA str :
             Ok(RStrip(RStrip(str, "0"), ".") \o Chars(DstExp(st).val) \o StrInt(x)))

\* the commands whose try statement has no loop of its own
DirectCommands == {"BinToDec", "BinToHex", "DecToBin", "DecToHex", "HexToBin",
                   "HexToDec", "ExpToDec", "UfxToDec", "SfxToDec", "SbinToDec",
                   "SbinToHex"}
Commands == DirectCommands \cup {"DecToExp"}

Convert(c, st, t) ==
    CASE c = "BinToDec" -> BinToDecCommand(st, t)
      [] c = "BinToHex" -> BinToHexCommand(st, t)
      [] c = "DecToBin" -> DecToBinCommand(st, t)
      [] c = "DecToHex" -> DecToHexCommand(st, t)
      [] c = "HexToBin" -> HexToBinCommand(st, t)
      [] c = "HexToDec" -> HexToDecCommand(st, t)
      [] c = "ExpToDec" -> ExpToDecCommand(st, t)
      [] c = "UfxToDec" -> UfxToDecCommand(st, t)
      [] c = "SfxToDec" -> SfxToDecCommand(st, t)
      [] c = "SbinToDec" -> SbinToDecCommand(st, t)
      [] c = "SbinToHex" -> SbinToHexCommand(st, t)

\* the word of the status message of each command
Kind(c) ==
    CASE c \in {"BinToDec", "BinToHex", "SbinToDec", "SbinToHex"} -> "binary"
      [] c \in {"DecToBin", "DecToHex", "DecToExp"} -> "decimal"
      [] c \in {"HexToBin", "HexToDec"} -> "hexadecimal"
      [] c = "ExpToDec" -> "exponential"
      [] c \in {"UfxToDec", "SfxToDec"} -> "fixed point"

(***************************************************************************)
(* The texts and settings the model draws.                                 *)
(***************************************************************************)
BinItems == {<<"1", "0", "1">>, <<"0", "b", "1", "1">>, <<"1", "0", "2">>,
             <<"'", "B", "1", "0", "'">>}
HexItems == {<<"1", "f">>, <<"0", "x", "1", "F", "h">>, <<"g", "1">>,
             <<"'", "H", "Z", "1", "'">>, <<"'", "H", "1", "A", "'">>}
DecItems == {<<"1", "2">>, <<" ", "7", " ">>, <<"-", "3">>, <<"1", "x">>}
ExpItems == {<<"1", ".", "5", "e", "2">>, <<"1", ".", "5", ",", "2">>,
             <<"2", ".", "5", "E", "+", "1">>, <<"1", ".", "5", "x", "2">>,
             <<"1", "5", "e", "2">>}
RealItems == {<<"1", "4", "2", "0">>, <<"1", "0">>, <<"0">>, <<"-", "5">>,
              <<"0", ".", "0", "5">>, <<"x", "7">>}
FxdItems == {<<"1", "0", "1", ".", "1", "1", "0">>, <<"1", ".", "0", "1", "1">>,
             <<"0", "b", "0", ".", "1">>, <<"1", "0", "1">>}

ItemsOf(c) ==
    CASE c \in {"BinToDec", "BinToHex", "SbinToDec", "SbinToHex"} -> BinItems
      [] c \in {"DecToBin", "DecToHex"} -> DecItems
      [] c \in {"HexToBin", "HexToDec"} -> HexItems
      [] c = "ExpToDec" -> ExpItems
      [] c = "DecToExp" -> RealItems
      [] c \in {"UfxToDec", "SfxToDec"} -> FxdItems

\* the settings a command reads
SlotsOf(c) ==
    CASE c \in {"BinToDec", "SbinToDec"} -> {"convert_src_bin"}
      [] c \in {"BinToHex", "SbinToHex"} -> {"convert_src_bin", "convert_dst_hex"}
      [] c = "DecToBin" -> {"convert_dst_bin"}
      [] c = "DecToHex" -> {"convert_dst_hex"}
      [] c = "HexToBin" -> {"convert_src_hex", "convert_dst_bin"}
      [] c = "HexToDec" -> {"convert_src_hex"}
      [] c = "ExpToDec" -> {"convert_src_exp"}
      [] c = "DecToExp" -> {"convert_dst_exp"}
      [] c \in {"UfxToDec", "SfxToDec"} -> {"convert_src_fxd"}

\* the values drawn for a setting: none, a working override, a broken one
ValuesOf(slot) ==
    CASE slot = "convert_src_bin" -> {Absent, Str(ExampleSrcBin), Str(BadPattern)}
      [] slot = "convert_src_hex" -> {Absent, Str(ExampleSrcHex), Str(BadPattern)}
      [] slot = "convert_src_fxd" -> {Absent, Str(BadPattern), NonString}
      [] slot = "convert_src_exp" -> {Absent, Str(BadPattern), NonString}
      [] slot = "convert_dst_bin" -> {Absent, Str(ExampleDstBin), Str(BadFormat)}
      [] slot = "convert_dst_hex" -> {Absent, Str(ExampleDstHex), Str(BadFormat)}
      [] slot = "convert_dst_exp" -> {Absent, Str(ExampleDstExp), NonString}

DefaultSettings == [s \in Slots |-> Absent]

SettingsOf(c) ==
    LET fs == {f \in [SlotsOf(c) -> UNION {ValuesOf(s) : s \in SlotsOf(c)}] :
                   \A s \in SlotsOf(c) : f[s] \in ValuesOf(s)}
    IN  {[s \in Slots |-> IF s \in SlotsOf(c) THEN f[s] ELSE Absent] : f \in fs}

Batches(S, n) == UNION {[1..k -> S] : k \in 1..n}

NoStatus == [shown |-> FALSE, n |-> 0, kind |-> ""]

(***************************************************************************)
(* The state: the command run, the settings of the view, the texts of the  *)
(* selections when the command starts (items) and now (out), the number of *)
(* view.replace calls on each (nrep), the position of the for loop (idx),  *)
(* num_skip, the locals base and exp of DecToExpCommand, and the status    *)
(* message shown.                                                          *)
(***************************************************************************)
Start(c, st, b) ==
    /\ cmd = c
    /\ settings = st
    /\ items = b
    /\ out = b
    /\ nrep = [i \in 1..Len(b) |-> 0]
    /\ idx = 1
    /\ num_skip = 0
    /\ pc = "loop"
    /\ base = NoNum
    /\ exp = 0
    /\ status = NoStatus

Init ==
    \E c \in Commands : \E st \in SettingsOf(c) : \E b \in Batches(ItemsOf(c), MaxBatch) :
        Start(c, st, b)

\* view.replace(edit, sel, text) on the selection idx
Replace(text) ==
    /\ out' = [out EXCEPT ![idx] = text]
    /\ nrep' = [nrep EXCEPT ![idx] = @ + 1]
    /\ UNCHANGED num_skip

\* except: num_skip += 1
Skip ==
    /\ num_skip' = num_skip + 1
    /\ UNCHANGED <<out, nrep>>

\* the end of a selection with the first failure ending the for loop
Conclude_Abort(r) ==
    /\ IF r.ok THEN Replace(r.text) ELSE Skip
    /\ idx' = IF r.ok THEN idx + 1 ELSE Len(items) + 1
    /\ pc' = "loop"

\* the end of the try statement of one selection: the replacement, or the skip
Conclude(r) ==
    /\ IF r.ok THEN Replace(r.text) ELSE Skip
    /\ idx' = idx + 1
    /\ pc' = "loop"

\* one pass of the for loop of a command whose try statement has no loop
RunItem ==
    /\ pc = "loop"
    /\ idx <= Len(items)
    /\ cmd \in DirectCommands
    /\ \E r \in {Convert(cmd, settings, out[idx])} : Conclude(r)
    /\ UNCHANGED <<cmd, settings, items, base, exp, status>>

\* DecToExpCommand: base = float(view.substr(sel)); exp = 0
ParseReal ==
    /\ pc = "loop"
    /\ idx <= Len(items)
    /\ cmd = "DecToExp"
    /\ \E f \in {FloatParse(out[idx])} :
       IF f.ok
       THEN /\ base' = f.val
            /\ exp' = 0
            /\ pc' = "div"
            /\ UNCHANGED <<out, nrep, num_skip, idx>>
       ELSE /\ Conclude(Raise)
            /\ UNCHANGED <<base, exp>>
    /\ UNCHANGED <<cmd, settings, items, status>>

\* while base > 10: base /= 10
DivStep ==
    /\ pc = "div"
    /\ GT10(base)
    /\ base' = Div10(base)
    /\ pc' = "divexp"
    /\ UNCHANGED <<cmd, settings, items, out, nrep, idx, num_skip, exp, status>>

\* exp += 1, the second statement of the first loop; beyond ExpCap the model
\* keeps ExpCap for every larger exp
DivCount ==
    /\ pc = "divexp"
    /\ exp' = IF exp < ExpCap THEN exp + 1 ELSE exp
    /\ pc' = "div"
    /\ UNCHANGED <<cmd, settings, items, out, nrep, idx, num_skip, base, status>>

\* the first loop ends: base > 10 is false
DivDone ==
    /\ pc = "div"
    /\ ~GT10(base)
    /\ pc' = "mul"
    /\ UNCHANGED <<cmd, settings, items, out, nrep, idx, num_skip, base, exp, status>>

\* while base < 1: base *= 10
MulStep ==
    /\ pc = "mul"
    /\ LT1(base)
    /\ base' = Mul10(base)
    /\ pc' = "mulexp"
    /\ UNCHANGED <<cmd, settings, items, out, nrep, idx, num_skip, exp, status>>

\* exp -= 1, the second statement of the second loop; below -ExpCap the model
\* keeps -ExpCap for every smaller exp
MulCount ==
    /\ pc = "mulexp"
    /\ exp' = IF exp > -ExpCap THEN exp - 1 ELSE exp
    /\ pc' = "mul"
    /\ UNCHANGED <<cmd, settings, items, out, nrep, idx, num_skip, base, status>>

\* base = str(base).rstrip('0').rstrip('.'); view.replace(...)
Render ==
    /\ pc = "mul"
    /\ ~LT1(base)
    /\ \E r \in {DecToExpRender(settings, base, exp)} : Conclude(r)
    /\ base' = NoNum    \* base and exp are locals nothing reads before the
    /\ exp' = 0         \* next selection assigns them
    /\ UNCHANGED <<cmd, settings, items, status>>

\* if num_skip > 0: sublime.status_message(...)
Finish ==
    /\ pc = "loop"
    /\ idx > Len(items)
    /\ status' = IF num_skip > 0
                 THEN [shown |-> TRUE, n |-> num_skip, kind |-> Kind(cmd)]
                 ELSE NoStatus
    /\ pc' = "done"
    /\ UNCHANGED <<cmd, settings, items, out, nrep, idx, num_skip, base, exp>>

Next ==
    \/ RunItem \/ ParseReal \/ DivStep \/ DivCount \/ DivDone \/ MulStep \/ MulCount
    \/ Render \/ Finish

Spec == Init /\ [][Next]_vars

\* every command on every batch of one selection
InitOne ==
    \E c \in Commands : \E st \in SettingsOf(c) : \E b \in Batches(ItemsOf(c), 1) :
        Start(c, st, b)

\* a command, once started, runs on: a step that can be taken is taken
FairSpec == InitOne /\ [][Next]_vars /\ WF_vars(Next)

(***************************************************************************)
(* The specifications of single conversions: every digit string up to a    *)
(* length, through the command that converts it, under the default         *)
(* settings.                                                               *)
(***************************************************************************)
BinStrings(n) == UNION {[1..k -> BinChars] : k \in 1..n}

NextRun == RunItem \/ Finish

\* signed binary -> decimal and -> hex on every digit string up to MaxBits
InitTC ==
    \E c \in {"SbinToDec", "SbinToHex"} : \E d \in BinStrings(MaxBits) :
        Start(c, DefaultSettings, <<d>>)

SpecTC == InitTC /\ [][NextRun]_vars

\* fixed point -> decimal on every integer part and fractional part
InitFx ==
    \E c \in {"UfxToDec", "SfxToDec"} :
        \E i \in BinStrings(MaxIntBits) : \E f \in BinStrings(MaxFracBits) :
            Start(c, DefaultSettings, <<i \o <<".">> \o f>>)

SpecFx == InitFx /\ [][NextRun]_vars

\* decimal -> binary and decimal -> hex on the numeral of every n up to MaxN
InitRT ==
    \E c \in {"DecToBin", "DecToHex"} : \E n \in 0..MaxN :
        Start(c, DefaultSettings, <<StrInt(n)>>)

\* the inverse command is run on the same selections, whose text is now the
\* output of the first: run() starts again with num_skip = 0
RunInverse ==
    /\ pc = "done"
    /\ cmd \in {"DecToBin", "DecToHex"}
    /\ cmd' = IF cmd = "DecToBin" THEN "BinToDec" ELSE "HexToDec"
    /\ idx' = 1
    /\ num_skip' = 0
    /\ nrep' = [i \in 1..Len(items) |-> 0]
    /\ status' = NoStatus
    /\ pc' = "loop"
    /\ UNCHANGED <<settings, items, out, base, exp>>

NextRT == RunItem \/ Finish \/ RunInverse

SpecRT == InitRT /\ [][NextRT]_vars

(***************************************************************************)
(* Properties.                                                             *)
(***************************************************************************)
\* the selections the for loop has finished with
Processed == 1..(idx - 1)

\* the selection text t ends in a skip: the try statement raises
Fails(c, st, t) ==
    IF c = "DecToExp" THEN ~FloatParse(t).ok \/ DstExp(st).type # "str"
    ELSE ~Convert(c, st, t).ok

C2_TwosComplement ==
    \A i \in Processed :
        LET d == items[i]
            n == Len(d)
            u == DigitsValue(d, 2)
            expected == IF d[1] = "0" THEN u ELSE u - Pow(2, n)
        IN  /\ twos_complement(d, n, 2) = Val(expected)
            /\ expected >= -Pow(2, n - 1)
            /\ expected <= Pow(2, n - 1) - 1
            /\ out[i] = IF cmd = "SbinToDec" THEN StrInt(expected)
                        ELSE FormatHexPrefixed(expected)
            /\ d = <<"1", "0", "1">> => twos_complement(d, n, 2).val = -3

C2_Witness ==
    /\ pc = "done"
    /\ cmd = "SbinToDec"
    /\ items = <<<<"1", "0", "1">>>>
    /\ out = <<<<"-", "3">>>>
    /\ num_skip = 0

\* the parts of a fixed point literal before and after its point
PointAt(t) == CHOOSE k \in 1..Len(t) : t[k] = "."
IntPart(t) == SubSeq(t, 1, PointAt(t) - 1)
FracPart(t) == SubSeq(t, PointAt(t) + 1, Len(t))

RECURSIVE ScaledFraction(_, _)
\* 2^Len(frac) times the sum of 2^-(i+1) over the 0-indexed positions i < n of
\* frac whose digit is 1
ScaledFraction(frac, n) ==
    IF n = 0 THEN 0
    ELSE ScaledFraction(frac, n - 1)
         + (IF frac[n] = "1" THEN Pow(2, Len(frac) - n) ELSE 0)

\* the decimal r, times 2^k, is the integer s
ScaledEquals(r, k, s) ==
    /\ r.e <= 0
    /\ (IF r.neg THEN -1 ELSE 1) * r.m * Pow(2, k) = s * Pow(10, -r.e)

\* C4: UFixedToDecimal(int, frac) is exactly the base-2 value of int plus the
\* sum of 2^-(i+1) over the fractional positions i whose digit is 1, and the
\* command writes that number; 101.110 gives 5.75, and a fractional part of
\* zeros gives the integer value alone.
C4_UnsignedFixed ==
    \A i \in Processed :
        cmd = "UfxToDec" =>
            LET int == IntPart(items[i])
                frac == FracPart(items[i])
                r == UFixedToDecimal(int, frac)
            IN  /\ ScaledEquals(r, Len(frac),
                                DigitsValue(int, 2) * Pow(2, Len(frac))
                                + ScaledFraction(frac, Len(frac)))
                /\ out[i] = StrDecimal(r)
                /\ (\A j \in 1..Len(frac) : frac[j] = "0") =>
                       out[i] = StrInt(DigitsValue(int, 2))
                /\ items[i] = <<"1", "0", "1", ".", "1", "1", "0">> =>
                       out[i] = <<"5", ".", "7", "5">>

C4_Witness ==
    /\ pc = "done"
    /\ cmd = "UfxToDec"
    /\ items = <<<<"1", "0", "1", ".", "1", "1", "0">>>>
    /\ out = <<<<"5", ".", "7", "5">>>>
    /\ num_skip = 0

\* C3: FixedToDecimal(int, frac) is the unsigned fixed point value when int
\* starts with 0; otherwise it is -(2^p) + add, p = len(int) - 1 and add the
\* unsigned value of the digits with the first replaced by 0, which is the
\* unsigned value minus 2^len(int); 101.110 gives -2.25 and 1.011 gives -0.625.
C3_SignedFixed ==
    \A i \in Processed :
        cmd = "SfxToDec" =>
            LET int == IntPart(items[i])
                frac == FracPart(items[i])
                r == FixedToDecimal(int, frac)
                u == DigitsValue(int, 2) * Pow(2, Len(frac))
                     + ScaledFraction(frac, Len(frac))
                rest == DigitsValue(Tail(int), 2) * Pow(2, Len(frac))
                        + ScaledFraction(frac, Len(frac))
            IN  /\ int[1] = "0" => r = UFixedToDecimal(int, frac)
                /\ int[1] = "0" => ScaledEquals(r, Len(frac), u)
                /\ int[1] = "1" =>
                      /\ ScaledEquals(r, Len(frac),
                                      rest - Pow(2, Len(int) - 1) * Pow(2, Len(frac)))
                      /\ ScaledEquals(r, Len(frac),
                                      u - Pow(2, Len(int)) * Pow(2, Len(frac)))
                /\ out[i] = StrDecimal(r)
                /\ items[i] = <<"1", "0", "1", ".", "1", "1", "0">> =>
                       out[i] = <<"-", "2", ".", "2", "5">>
                /\ items[i] = <<"1", ".", "0", "1", "1">> =>
                       out[i] = <<"-", "0", ".", "6", "2", "5">>

C3_Witness ==
    /\ pc = "done"
    /\ cmd = "SfxToDec"
    /\ items = <<<<"1", ".", "0", "1", "1">>>>
    /\ out = <<<<"-", "0", ".", "6", "2", "5">>>>
    /\ num_skip = 0

\* an override of a setting that is there and does not work: a source pattern
\* re.compile rejects, a destination format str.format rejects, a separator
\* that is no string
InvalidOverride(slot, v) ==
    /\ v.type # "absent"
    /\ IF slot \in SrcSlots THEN ~ReCompiles(v)
       ELSE IF slot = "convert_dst_exp" THEN v.type # "str"
       ELSE ~Format(v, 0).ok

\* the finished selection i ended as it ends under the settings st
EndsAsUnder(st, i) ==
    IF cmd = "DecToExp"
    THEN nrep[i] = (IF Fails(cmd, st, items[i]) THEN 0 ELSE 1)
    ELSE IF Convert(cmd, st, items[i]).ok
         THEN nrep[i] = 1 /\ out[i] = Convert(cmd, st, items[i]).text
         ELSE nrep[i] = 0 /\ out[i] = items[i]

C6_RoundTrip ==
    /\ pc = "done" => num_skip = 0 /\ nrep[1] = 1
    /\ pc = "done" /\ cmd \in {"BinToDec", "HexToDec"} => out = items

C6_Witness ==
    /\ pc = "done"
    /\ cmd = "HexToDec"
    /\ items = <<<<"3", "1">>>>
    /\ out = items
    /\ nrep = <<1>>

\* C7: every command reaches its end on every batch: in particular the loops of
\* decimal -> exponential end for every decimal that parses, zero and negative
\* values included.
C7_EveryCommandEnds == <>(pc = "done")

\* the value the decimal -> exponential loops work on, when it is positive
PositiveInput ==
    /\ cmd = "DecToExp"
    /\ idx <= Len(items)
    /\ FloatParse(items[idx]).ok
    /\ ~FloatParse(items[idx]).val.neg
    /\ FloatParse(items[idx]).val.m # 0

\* C8: when the two loops of decimal -> exponential have ended on a positive
\* value v, 1 <= base < 10 and base * 10^exp = v.
C8_MantissaNormalized ==
    (pc = "mul" /\ ~LT1(base) /\ PositiveInput) =>
        /\ ~base.inf /\ ~base.neg /\ base.m # 0
        /\ Decpt(Canon(base)) = 1
        /\ Canon(Num(FALSE, base.m, base.e + exp)) = Canon(FloatParse(items[idx]).val)

\* t is digits, a point, digits, the letter e or E, an optional sign, digits
WellFormedExponential(t) ==
    \E i, f \in 1..Len(t) :
        /\ i + 1 + f + 2 <= Len(t)
        /\ \A k \in 1..i : t[k] \in DecChars
        /\ t[i + 1] = "."
        /\ \A k \in (i + 2)..(i + 1 + f) : t[k] \in DecChars
        /\ t[i + f + 2] \in {"e", "E"}
        /\ LET x == IF t[i + f + 3] \in {"-", "+"} THEN i + f + 4 ELSE i + f + 3
           IN  x <= Len(t) /\ \A k \in x..Len(t) : t[k] \in DecChars

\* C9: with the default source pattern, exponential -> decimal replaces a
\* selection only when its text is digits, a point, digits, e or E and an
\* optionally signed exponent; any other text is left as it is and counted.
C9_OnlyLetterE ==
    (cmd = "ExpToDec" /\ settings["convert_src_exp"] = Absent) =>
        /\ \A i \in Processed :
              ~WellFormedExponential(items[i]) => nrep[i] = 0 /\ out[i] = items[i]
        /\ num_skip >= Cardinality({i \in Processed : ~WellFormedExponential(items[i])})

\* the text the try statement of the selection idx writes when nothing raises
CompleteResult ==
    IF cmd \in DirectCommands THEN Convert(cmd, settings, out[idx]).text
    ELSE DecToExpRender(settings, base, exp).text

\* a step that finishes a selection finishes exactly that one, and either
\* replaces its text once, by the whole converted string, leaving num_skip, or
\* leaves its text and adds exactly one to num_skip; no other step changes a
\* text or num_skip, and no selection is gone back to
OneOutcomePerStep ==
    /\ idx' >= idx
    /\ idx' = idx => out' = out /\ nrep' = nrep /\ num_skip' = num_skip
    /\ idx' # idx =>
         /\ idx' = idx + 1
         /\ \A j \in 1..Len(items) : j # idx => out'[j] = out[j] /\ nrep'[j] = nrep[j]
         /\ \/ /\ nrep[idx] = 0 /\ nrep'[idx] = 1
               /\ out'[idx] = CompleteResult
               /\ num_skip' = num_skip
            \/ /\ nrep[idx] = 0 /\ nrep'[idx] = 0
               /\ out'[idx] = out[idx]
               /\ num_skip' = num_skip + 1

\* the selection i has ended: replaced once, or left as it was and counted
Ended(i) ==
    /\ i < idx
    /\ \/ nrep[i] = 1
       \/ nrep[i] = 0 /\ out[i] = items[i] /\ num_skip >= 1

\* C10: in every command each selection of the batch ends, in exactly one of
\* two outcomes: every step that finishes a selection replaces its text once by
\* the whole converted string or leaves it and adds one to num_skip, nothing
\* else changes a text or num_skip, and every selection gets there.
C10_OneOutcomePerItem ==
    /\ [][OneOutcomePerStep]_vars
    /\ <>(\A i \in 1..Len(items) : Ended(i))

\* the half of C10 that is about the effect of a step, not about getting there
C10_NoStepBreaksOutcome == [][OneOutcomePerStep]_vars

====
